---- MODULE Spec2Model ----
(***************************************************************************)
(* svgiconfont: src/src/index.ts.                                          *)
(*                                                                         *)
(* generate(options) ensures the destination directory, builds the         *)
(* codepoint table and the intermediate SVG font (generateSvgFont),        *)
(* renders the stylesheet (generateCssContent), converts the font and      *)
(* writes one file per entry of ['css', ...types] under Promise.all.       *)
(*                                                                         *)
(* JavaScript values are modelled as follows.                              *)
(*   - an optional value (x | undefined) is <<>> or <<x>>;                 *)
(*   - a plain object (Record<string, T>) is the sequence of its own       *)
(*     enumerable entries [name, value] in the order Object.entries        *)
(*     yields them: array-index names ascending, then the other names in   *)
(*     insertion order;                                                    *)
(*   - the result of a property read is tagged: a number, a string,        *)
(*     undefined, or a function inherited from Object.prototype;           *)
(*   - a file path is the record path.parse splits it into;                *)
(*   - a text is the sequence of its characters (hexadecimal digits), a    *)
(*     stylesheet the record of its rules.                                 *)
(***************************************************************************)
EXTENDS Integers, Sequences, FiniteSets, TLC

(***************************************************************************)
(* Program constants (index.ts:12-15).                                     *)
(***************************************************************************)
DEFAULT_BASE_SELECTOR == ".icon"
DEFAULT_CLASS_PREFIX == "icon-"
DEFAULT_START_CODEPOINT == 61697
DEFAULT_FILE_OUTPUTS == <<"woff2", "woff">>

(***************************************************************************)
(* Bounds of the explored requests.                                        *)
(***************************************************************************)
MaxFiles == 3
MaxOverrides == 2
MaxTypes == 3

(***************************************************************************)
(* Optional values and the nullish coalescing operator (a ?? b).           *)
(***************************************************************************)
None == <<>>
Some(x) == <<x>>
OrElse(opt, default) == IF opt = None THEN default ELSE opt[1]

Range(s) == {s[k] : k \in 1..Len(s)}

(***************************************************************************)
(* Plain objects.                                                          *)
(***************************************************************************)
\* Names that are canonical array indices; position - 1 is the numeric value.
ArrayIndexKeys == <<"0", "1">>
IsArrayIndex(name) == name \in Range(ArrayIndexKeys)
IndexValue(name) == (CHOOSE k \in 1..Len(ArrayIndexKeys) : ArrayIndexKeys[k] = name) - 1

\* Properties every plain object inherits from Object.prototype.
ObjectPrototypeKeys == {"constructor", "toString", "valueOf"}
\* String(Object.prototype.constructor): what the inherited function becomes
\* when it is used as a property key or interpolated into a text.
FunctionAsKey(name) ==
    IF name = "constructor" THEN "function Object() { [native code] }"
    ELSE "function () { [native code] }"

Undefined == [t |-> "undefined", v |-> 0, s |-> ""]
Num(n) == [t |-> "number", v |-> n, s |-> ""]
Str(x) == [t |-> "string", v |-> 0, s |-> x]
Fn(name) == [t |-> "function", v |-> 0, s |-> FunctionAsKey(name)]

Keys(obj) == {obj[k].name : k \in 1..Len(obj)}
Values(obj) == {obj[k].value : k \in 1..Len(obj)}
HasOwn(obj, name) == name \in Keys(obj)
Own(obj, name) == obj[CHOOSE k \in 1..Len(obj) : obj[k].name = name].value

\* obj[name] read on an object of numbers: own property, else the prototype.
GetNumber(obj, name) ==
    IF HasOwn(obj, name) THEN Num(Own(obj, name))
    ELSE IF name \in ObjectPrototypeKeys THEN Fn(name)
    ELSE Undefined

\* obj[name] read on an object of strings.
GetString(obj, name) ==
    IF HasOwn(obj, name) THEN Str(Own(obj, name))
    ELSE IF name \in ObjectPrototypeKeys THEN Fn(name)
    ELSE Undefined

\* !x is false for a truthy x: undefined and 0 are falsy, functions are not.
Truthy(x) ==
    \/ x.t = "function"
    \/ x.t = "number" /\ x.v # 0
    \/ x.t = "string" /\ x.s # ""

\* Where a new own property lands in the enumeration order.
InsertAt(obj, name) ==
    IF IsArrayIndex(name)
    THEN 1 + Cardinality({k \in 1..Len(obj) :
                 IsArrayIndex(obj[k].name) /\ IndexValue(obj[k].name) < IndexValue(name)})
    ELSE Len(obj) + 1

\* obj[name] = value.
Put(obj, name, value) ==
    IF HasOwn(obj, name)
    THEN [k \in 1..Len(obj) |->
             IF obj[k].name = name THEN [name |-> name, value |-> value] ELSE obj[k]]
    ELSE LET p == InsertAt(obj, name)
         IN  SubSeq(obj, 1, p - 1) \o <<[name |-> name, value |-> value]>>
                 \o SubSeq(obj, p, Len(obj))

\* The object a literal builds from its entries, left to right.
RECURSIVE ObjectOf(_)
ObjectOf(entries) ==
    IF entries = <<>> THEN <<>>
    ELSE LET n == Len(entries)
         IN  Put(ObjectOf(SubSeq(entries, 1, n - 1)), entries[n].name, entries[n].value)

(***************************************************************************)
(* Paths.                                                                  *)
(***************************************************************************)
File(dir, name) == [dir |-> dir, name |-> name, ext |-> ".svg"]
\* path.parse(file).name: the base name without directory and extension.
pathParseName(file) == file.name
\* path.resolve(dest, `${fontName}.${type}`).
pathResolve(dest, fontName, type) == [dir |-> dest, name |-> fontName, ext |-> type]

(***************************************************************************)
(* Number.prototype.toString(16) on a natural number, as its characters.   *)
(***************************************************************************)
HexDigits ==
    <<"0", "1", "2", "3", "4", "5", "6", "7", "8", "9", "a", "b", "c", "d", "e", "f">>

RECURSIVE Digits16(_)
Digits16(n) ==
    IF n < 16 THEN <<HexDigits[n + 1]>>
    ELSE Digits16(n \div 16) \o <<HexDigits[(n % 16) + 1]>>

\* A rendering that pads to four digits, as .padStart(4, '0') would.
toString16Padded(n) ==
    LET d == Digits16(n)
    IN  IF Len(d) < 4 THEN [k \in 1..(4 - Len(d)) |-> "0"] \o d ELSE d

toString16(n) == Digits16(n)

\* String.fromCodePoint(x) throws a RangeError unless x is a code point.
fromCodePointThrows(x) == ~(x.t = "number" /\ x.v \in 0..1114111)

(***************************************************************************)
(* generateCssContent (index.ts:184-216).                                  *)
(***************************************************************************)
FontPreference == <<"woff2", "woff", "ttf", "svg">>

RequestedTypes(options) == OrElse(options.types, DEFAULT_FILE_OUTPUTS)

Selector(options) ==
    IF options.cssOptions = None THEN DEFAULT_BASE_SELECTOR
    ELSE OrElse(options.cssOptions[1].baseSelector, DEFAULT_BASE_SELECTOR)

ClassPrefix(options) ==
    IF options.cssOptions = None THEN DEFAULT_CLASS_PREFIX
    ELSE OrElse(options.cssOptions[1].classPrefix, DEFAULT_CLASS_PREFIX)

\* One `url("./<fontName>.<type>") format("<format>")` entry.
SrcEntry(options, type) ==
    [url |-> [dir |-> ".", name |-> options.fontName, ext |-> type],
     format |-> IF type = "ttf" THEN "truetype" ELSE type]

\* The src list built from the types in the order the request lists them.
FontFaceSrcAsRequested(options) ==
    LET req == RequestedTypes(options)
    IN  [k \in 1..Len(req) |-> SrcEntry(options, req[k])]

FontFaceSrc(options) ==
    LET Requested(type) == type \in Range(RequestedTypes(options))
        kept == SelectSeq(FontPreference, Requested)
    IN  [k \in 1..Len(kept) |-> SrcEntry(options, kept[k])]

\* One `<selector>.<classPrefix><name>:before { content: "\<hex>"; }` rule.
IconRule(options, entry) ==
    [selector |-> Selector(options),
     classPrefix |-> ClassPrefix(options),
     name |-> entry.name,
     pseudo |-> "before",
     content |-> <<"\\">> \o toString16(entry.value)]

generateCssContent(options, table) ==
    [fontFace |-> [family |-> options.fontName, src |-> FontFaceSrc(options)],
     base |-> [selector |-> Selector(options), family |-> options.fontName],
     icons |-> [k \in 1..Len(table) |-> IconRule(options, table[k])]]

(***************************************************************************)
(* newCodepoint (index.ts:234-242): the do-while over the values the table *)
(* holds when the call starts.                                             *)
(***************************************************************************)
\* An allocator that returns the next value without looking at the table.
newCodepointNoProbe(cursor, items) == cursor + 1

RECURSIVE newCodepoint(_, _)
newCodepoint(cursor, items) ==
    IF (cursor + 1) \in items THEN newCodepoint(cursor + 1, items) ELSE cursor + 1

(***************************************************************************)
(* State.                                                                  *)
(***************************************************************************)
VARIABLES
    options,          \* the GenerateOptions of the run, never mutated
    mkdirFails,       \* environment: fs.mkdirSync(dest) would throw
    dirExists,        \* file system: dest is a directory
    disk,             \* file system: the paths written under dest
    pc,               \* where generate stands
    codepoints,       \* generateSvgFont: const codepoints (index.ts:219)
    names,            \* generateSvgFont: const names (index.ts:220)
    currentCodepoint, \* generateSvgFont: let currentCodepoint (index.ts:232)
    fileIndex,        \* position of the running options.files.map
    fontStream,       \* the assembler: "none", "open", "ended", "finished"
    glyphs,           \* the glyph metadata written to the assembler, in order
    svgFont,          \* the promise generateSvgFont returns
    css,              \* const css (index.ts:157)
    tasks,            \* the callbacks of the map at index.ts:160, one per entry
    microtasks,       \* the queue of callbacks ready to resume, oldest first
    all,              \* the Promise.all promise (index.ts:160)
    error,            \* what generate rejected with
    trace             \* the effects of the run, in order

vars == <<options, mkdirFails, dirExists, disk, pc, codepoints, names, currentCodepoint,
          fileIndex, fontStream, glyphs, svgFont, css, tasks, microtasks, all, error,
          trace>>

Event(ev, arg) == [ev |-> ev, arg |-> arg]
Happened(ev) == \E k \in 1..Len(trace) : trace[k].ev = ev

(***************************************************************************)
(* The requests explored.                                                  *)
(***************************************************************************)
SeqsUpTo(S, n) == UNION {[1..m -> S] : m \in 0..n}
IsInjective(s) == \A j, k \in 1..Len(s) : s[j] = s[k] => j = k

IconFiles == {File("svg", "a"), File("svg", "b"), File("svg", "0"),
              File("svg", "constructor")}
OverrideNames == {"a", "b", "1"}
OverrideValues == {0, DEFAULT_START_CODEPOINT + 1}
OverrideEntries == {[name |-> n, value |-> v] : n \in OverrideNames, v \in OverrideValues}
OverrideLiterals ==
    {lit \in SeqsUpTo(OverrideEntries, MaxOverrides) :
        lit # <<>> /\ IsInjective([k \in 1..Len(lit) |-> lit[k].name])}
CodepointOptions == {None} \cup {Some(ObjectOf(lit)) : lit \in OverrideLiterals}
RenameOptions ==
    {None, Some(ObjectOf(<<[name |-> "a", value |-> "icon"], [name |-> "b", value |-> "icon"]>>))}
StartOptions == {None, Some(-1)}
CssOptions == {None, Some([baseSelector |-> Some(".i"), classPrefix |-> None])}
TypeNames == {"svg", "ttf", "woff", "woff2", "eot"}
TypeOptions == {None} \cup {Some(t) : t \in SeqsUpTo(TypeNames, MaxTypes)}

Request(files, types, start, cps, renames, cssOptions) ==
    [fontName |-> "icon", dest |-> "out", files |-> files, types |-> types,
     startCodepoint |-> start, codepoints |-> cps, renames |-> renames,
     cssOptions |-> cssOptions]

\* Requests that vary what the codepoint table and the stylesheet rules read.
TableRequests ==
    {Request(f, None, s, c, r, o) :
        f \in SeqsUpTo(IconFiles, MaxFiles), s \in StartOptions,
        c \in CodepointOptions, r \in RenameOptions, o \in CssOptions}

\* Requests that vary what the write stage reads.
RunFiles == {<<File("svg", "a"), File("svg", "b")>>,
             <<File("svg", "a"), File("svg", "constructor")>>}
RunRequests ==
    {Request(f, t, None, None, None, None) : f \in RunFiles, t \in TypeOptions}

InitState(request, start) ==
    /\ options = request
    /\ pc = start
    /\ disk = {}
    /\ codepoints = <<>>
    /\ names = <<>>
    /\ currentCodepoint = 0
    /\ fileIndex = 1
    /\ fontStream = "none"
    /\ glyphs = <<>>
    /\ svgFont = "none"
    /\ css = None
    /\ tasks = <<>>
    /\ microtasks = <<>>
    /\ all = [state |-> "none", reason |-> None]
    /\ error = None
    /\ trace = <<>>

\* generate is called: dest exists, or is absent and can or cannot be created.
Init ==
    /\ \E request \in RunRequests : InitState(request, "ensureDest")
    /\ dirExists \in BOOLEAN
    /\ mkdirFails \in BOOLEAN
    /\ dirExists => ~mkdirFails

\* generateSvgFont is called (index.ts:156) in an existing destination.
InitTable ==
    /\ \E request \in TableRequests : InitState(request, "construct")
    /\ dirExists = TRUE
    /\ mkdirFails = FALSE

(***************************************************************************)
(* generate, step 1 (index.ts:152-154): the destination directory.         *)
(***************************************************************************)
Reject(reason) ==
    /\ pc' = "rejected"
    /\ error' = Some(reason)

\* fs.existsSync(dest), as the run observes it.
Exists(found) == Event("existsSync", IF found THEN "true" ELSE "false")

\* A variant that swallows the error of mkdirSync and carries on.
EnsureDestIgnoringFailure ==
    /\ pc = "ensureDest"
    /\ pc' = "construct"
    /\ trace' = IF dirExists THEN Append(trace, Exists(TRUE))
                ELSE trace \o <<Exists(FALSE), Event("mkdir", options.dest)>>
    /\ dirExists' = (dirExists \/ ~mkdirFails)
    /\ UNCHANGED <<options, mkdirFails, disk, codepoints, names, currentCodepoint,
                   fileIndex, fontStream, glyphs, svgFont, css, tasks, microtasks, all,
                   error>>

EnsureDest ==
    /\ pc = "ensureDest"
    /\ IF dirExists
       THEN /\ pc' = "construct"
            /\ trace' = Append(trace, Exists(TRUE))
            /\ UNCHANGED <<dirExists, error>>
       ELSE IF mkdirFails
       THEN /\ Reject([kind |-> "mkdir", arg |-> options.dest])
            /\ trace' = trace \o <<Exists(FALSE), Event("mkdir", options.dest),
                                    Event("throw", "mkdirSync")>>
            /\ UNCHANGED dirExists
       ELSE /\ pc' = "construct"
            /\ dirExists' = TRUE
            /\ trace' = trace \o <<Exists(FALSE), Event("mkdir", options.dest)>>
            /\ UNCHANGED error
    /\ UNCHANGED <<options, mkdirFails, disk, codepoints, names, currentCodepoint,
                   fileIndex, fontStream, glyphs, svgFont, css, tasks, microtasks, all>>

(***************************************************************************)
(* generateSvgFont (index.ts:218-281).                                     *)
(***************************************************************************)
\* options.renames?.[filename] ?? filename, as the property key it is used as.
ResolvedName(file) ==
    LET filename == pathParseName(file)
        renamed == IF options.renames = None THEN Undefined
                   ELSE GetString(options.renames[1], filename)
    IN  IF renamed.t = "undefined" THEN filename ELSE renamed.s

AfterLoop(next) == IF Len(options.files) = 0 THEN "end" ELSE next

\* index.ts:219-232: the locals, the assembler, the cursor.
Construct ==
    /\ pc = "construct"
    /\ pc' = "seed"
    /\ codepoints' = <<>>
    /\ names' = <<>>
    /\ fontStream' = "open"
    /\ svgFont' = "pending"
    /\ currentCodepoint' = OrElse(options.startCodepoint, DEFAULT_START_CODEPOINT)
    /\ trace' = Append(trace, Event("construct", options.fontName))
    /\ UNCHANGED <<options, mkdirFails, dirExists, disk, fileIndex, glyphs, css, tasks,
                   microtasks, all, error>>

\* index.ts:245-247: every entry of options.codepoints ?? {}, in its order.
RECURSIVE PutAll(_, _)
PutAll(obj, entries) ==
    IF entries = <<>> THEN obj
    ELSE PutAll(Put(obj, entries[1].name, entries[1].value), Tail(entries))

Seed ==
    /\ pc = "seed"
    /\ pc' = AfterLoop("assign")
    /\ codepoints' = PutAll(codepoints, OrElse(options.codepoints, <<>>))
    /\ fileIndex' = 1
    /\ UNCHANGED <<options, mkdirFails, dirExists, disk, names, currentCodepoint,
                   fontStream, glyphs, svgFont, css, tasks, microtasks, all, error, trace>>

\* index.ts:248-256: one iteration of the first options.files.map.
Assign ==
    /\ pc = "assign"
    /\ LET file == options.files[fileIndex]
           name == ResolvedName(file)
           fresh == newCodepoint(currentCodepoint, Values(codepoints))
       IN  /\ IF ~Truthy(GetNumber(codepoints, name))
              THEN /\ currentCodepoint' = fresh
                   /\ codepoints' = Put(codepoints, name, fresh)
              ELSE UNCHANGED <<currentCodepoint, codepoints>>
           /\ names' = (file :> name) @@ names
    /\ IF fileIndex = Len(options.files)
       THEN pc' = "glyph" /\ fileIndex' = 1
       ELSE pc' = pc /\ fileIndex' = fileIndex + 1
    /\ UNCHANGED <<options, mkdirFails, dirExists, disk, fontStream, glyphs, svgFont, css,
                   tasks, microtasks, all, error, trace>>

\* index.ts:258-271: one iteration of the second options.files.map.
\* String.fromCodePoint throws inside the async function, which rejects.
Glyph ==
    /\ pc = "glyph"
    /\ LET file == options.files[fileIndex]
           name == names[file]
           unicode == GetNumber(codepoints, name)
       IN  IF fromCodePointThrows(unicode)
           THEN /\ Reject([kind |-> "RangeError", arg |-> name])
                /\ svgFont' = "rejected"
                /\ trace' = Append(trace, Event("throw", "fromCodePoint"))
                /\ UNCHANGED <<glyphs, fileIndex>>
           ELSE /\ glyphs' = Append(glyphs, [name |-> name, unicode |-> unicode.v,
                                              renamed |-> FALSE, path |-> file])
                /\ trace' = Append(trace, Event("glyph", name))
                /\ IF fileIndex = Len(options.files)
                   THEN pc' = "end" /\ fileIndex' = 1
                   ELSE pc' = pc /\ fileIndex' = fileIndex + 1
                /\ UNCHANGED <<svgFont, error>>
    /\ UNCHANGED <<options, mkdirFails, dirExists, disk, codepoints, names,
                   currentCodepoint, fontStream, css, tasks, microtasks, all>>

\* A variant that resolves as soon as the input is ended, without waiting
\* for the assembler's 'finish'.
fontStreamEndNoWait ==
    /\ pc = "end"
    /\ pc' = "css"
    /\ fontStream' = "ended"
    /\ svgFont' = "resolved"
    /\ trace' = Append(trace, Event("end", options.fontName))
    /\ UNCHANGED <<options, mkdirFails, dirExists, disk, codepoints, names,
                   currentCodepoint, fileIndex, glyphs, css, tasks, microtasks, all, error>>

\* index.ts:273-280: end of input; the 'error' and 'finish' listeners are
\* attached and generate awaits the promise.
fontStreamEnd ==
    /\ pc = "end"
    /\ pc' = "awaitFont"
    /\ fontStream' = "ended"
    /\ trace' = Append(trace, Event("end", options.fontName))
    /\ UNCHANGED <<options, mkdirFails, dirExists, disk, codepoints, names,
                   currentCodepoint, fileIndex, glyphs, svgFont, css, tasks, microtasks,
                   all, error>>

\* index.ts:277-280: the assembler emits 'finish'; the first settlement of
\* the promise stands.
OnFinish ==
    /\ fontStream = "ended"
    /\ fontStream' = "finished"
    /\ trace' = Append(trace, Event("finish", options.fontName))
    /\ IF svgFont = "pending"
       THEN svgFont' = "resolved" /\ pc' = "css"
       ELSE UNCHANGED <<svgFont, pc>>
    /\ UNCHANGED <<options, mkdirFails, dirExists, disk, codepoints, names,
                   currentCodepoint, fileIndex, glyphs, css, tasks, microtasks, all, error>>

\* index.ts:275-277: the assembler emits 'error' for the batch. The assembler
\* (svgicons2svgfont) is a collaborator outside this repository: when it
\* signals, and which of the two events comes first, is open.
OnError ==
    /\ fontStream = "ended"
    /\ svgFont = "pending"
    /\ svgFont' = "rejected"
    /\ Reject([kind |-> "assembler", arg |-> options.fontName])
    /\ trace' = Append(trace, Event("error", options.fontName))
    /\ UNCHANGED <<options, mkdirFails, dirExists, disk, codepoints, names,
                   currentCodepoint, fileIndex, fontStream, glyphs, css, tasks, microtasks,
                   all>>

\* index.ts:157: const css = generateCssContent(options, codepoints).
GenerateCss ==
    /\ pc = "css"
    /\ pc' = "ttf"
    /\ css' = Some(generateCssContent(options, codepoints))
    /\ trace' = Append(trace, Event("css", options.fontName))
    /\ UNCHANGED <<options, mkdirFails, dirExists, disk, codepoints, names,
                   currentCodepoint, fileIndex, fontStream, glyphs, svgFont, tasks,
                   microtasks, all, error>>

NextTable ==
    \/ Construct
    \/ Seed
    \/ Assign
    \/ Glyph
    \/ fontStreamEnd
    \/ OnFinish
    \/ OnError
    \/ GenerateCss

SpecTable == InitTable /\ [][NextTable]_vars

(***************************************************************************)
(* generate, the write stage (index.ts:158-181).                           *)
(***************************************************************************)
\* index.ts:158: const ttf = Svg2Ttf(svg, options.options).buffer.
ConvertTtf ==
    /\ pc = "ttf"
    /\ pc' = "map"
    /\ trace' = Append(trace, Event("Svg2Ttf", options.fontName))
    /\ UNCHANGED <<options, mkdirFails, dirExists, disk, codepoints, names,
                   currentCodepoint, fileIndex, fontStream, glyphs, svgFont, css, tasks,
                   microtasks, all, error>>

\* The entries of the types option alone, without the stylesheet.
OutputEntriesWithoutCss == RequestedTypes(options)

\* ['css', ...(options.types ?? DEFAULT_FILE_OUTPUTS)].
OutputEntries == <<"css">> \o RequestedTypes(options)

KnownOutputs == {"css", "ttf", "woff", "woff2", "svg"}

\* index.ts:161-178: a callback up to its first await. data() returns the
\* stylesheet or a font at once, starts the asynchronous woff2 compression,
\* or throws for an entry the switch does not know.
StartTask(type) ==
    [type |-> type,
     output |-> pathResolve(options.dest, options.fontName, type),
     st |-> IF type \notin KnownOutputs THEN "threw"
            ELSE IF type = "woff2" THEN "compressing"
            ELSE "ready"]

StartEffects(type) ==
    IF type \notin KnownOutputs THEN <<Event("throw", type)>>
    ELSE IF type = "woff" THEN <<Event("Ttf2Woff", type)>>
    ELSE IF type = "woff2" THEN <<Event("Ttf2Woff2", type)>>
    ELSE <<>>

RECURSIVE Flatten(_)
Flatten(ss) == IF ss = <<>> THEN <<>> ELSE Head(ss) \o Flatten(Tail(ss))

\* index.ts:160: the map runs every callback to its first await, in order;
\* those whose data() has settled resume in that order.
MapOutputs ==
    /\ pc = "map"
    /\ pc' = "awaitAll"
    /\ tasks' = [k \in 1..Len(OutputEntries) |-> StartTask(OutputEntries[k])]
    /\ microtasks' = SelectSeq([k \in 1..Len(OutputEntries) |-> k],
                               LAMBDA k : OutputEntries[k] # "woff2")
    /\ trace' = trace \o Flatten([k \in 1..Len(OutputEntries) |->
                                      StartEffects(OutputEntries[k])])
    /\ all' = [state |-> "pending", reason |-> None]
    /\ UNCHANGED <<options, mkdirFails, dirExists, disk, codepoints, names,
                   currentCodepoint, fileIndex, fontStream, glyphs, svgFont, css, error>>

\* The woff2 compression of task k completes: its callback may resume.
CompressDone(k) ==
    /\ tasks[k].st = "compressing"
    /\ tasks' = [tasks EXCEPT ![k].st = "ready"]
    /\ microtasks' = Append(microtasks, k)
    /\ UNCHANGED <<options, mkdirFails, dirExists, disk, pc, codepoints, names,
                   currentCodepoint, fileIndex, fontStream, glyphs, svgFont, css, all,
                   error, trace>>

\* Promise.all after a callback's promise settled: it rejects with the first
\* rejection and resolves once no callback is left unresolved.
AllAfter(newTasks, k) ==
    IF all.state # "pending" THEN all
    ELSE IF newTasks[k].st = "rejected"
    THEN [state |-> "rejected", reason |-> Some([kind |-> "task", arg |-> newTasks[k].type])]
    ELSE IF \A j \in 1..Len(newTasks) : newTasks[j].st = "done"
    THEN [state |-> "resolved", reason |-> None]
    ELSE all

\* index.ts:179: the oldest ready callback resumes with its data and
\* fs.writeFileSync succeeds.
Write ==
    /\ microtasks # <<>>
    /\ LET k == Head(microtasks)
       IN  /\ tasks[k].st = "ready"
           /\ disk' = disk \cup {tasks[k].output}
           /\ tasks' = [tasks EXCEPT ![k].st = "wrote"]
           /\ microtasks' = Append(Tail(microtasks), k)
           /\ trace' = Append(trace, Event("write", tasks[k].type))
    /\ UNCHANGED <<options, mkdirFails, dirExists, pc, codepoints, names,
                   currentCodepoint, fileIndex, fontStream, glyphs, svgFont, css, all,
                   error>>

\* index.ts:179: fs.writeFileSync throws; the callback's promise rejects.
WriteFails ==
    /\ microtasks # <<>>
    /\ LET k == Head(microtasks)
           after == [tasks EXCEPT ![k].st = "rejected"]
       IN  /\ tasks[k].st = "ready"
           /\ tasks' = after
           /\ microtasks' = Tail(microtasks)
           /\ trace' = trace \o <<Event("throw", "writeFileSync"),
                                   Event("reject", tasks[k].type)>>
           /\ all' = AllAfter(after, k)
    /\ UNCHANGED <<options, mkdirFails, dirExists, disk, pc, codepoints, names,
                   currentCodepoint, fileIndex, fontStream, glyphs, svgFont, css, error>>

\* index.ts:175, 179: the await of a data() that threw rethrows in the
\* callback, whose promise rejects.
Rethrow ==
    /\ microtasks # <<>>
    /\ LET k == Head(microtasks)
           after == [tasks EXCEPT ![k].st = "rejected"]
       IN  /\ tasks[k].st = "threw"
           /\ tasks' = after
           /\ microtasks' = Tail(microtasks)
           /\ trace' = Append(trace, Event("reject", tasks[k].type))
           /\ all' = AllAfter(after, k)
    /\ UNCHANGED <<options, mkdirFails, dirExists, disk, pc, codepoints, names,
                   currentCodepoint, fileIndex, fontStream, glyphs, svgFont, css, error>>

\* index.ts:180: console.log; the callback's promise resolves.
Log ==
    /\ microtasks # <<>>
    /\ LET k == Head(microtasks)
           after == [tasks EXCEPT ![k].st = "done"]
       IN  /\ tasks[k].st = "wrote"
           /\ tasks' = after
           /\ microtasks' = Tail(microtasks)
           /\ all' = AllAfter(after, k)
    /\ UNCHANGED <<options, mkdirFails, dirExists, disk, pc, codepoints, names,
                   currentCodepoint, fileIndex, fontStream, glyphs, svgFont, css, error,
                   trace>>

\* A variant that treats the batch as allSettled: generate resolves once
\* the Promise.all promise has settled either way.
SettleAlwaysResolving ==
    /\ pc = "awaitAll"
    /\ all.state # "pending"
    /\ pc' = "resolved"
    /\ UNCHANGED <<options, mkdirFails, dirExists, disk, codepoints, names,
                   currentCodepoint, fileIndex, fontStream, glyphs, svgFont, css, tasks,
                   microtasks, all, error, trace>>

\* index.ts:160: await Promise.all(...) resumes; generate settles with it.
Settle ==
    /\ pc = "awaitAll"
    /\ all.state # "pending"
    /\ IF all.state = "resolved"
       THEN pc' = "resolved" /\ UNCHANGED error
       ELSE Reject(all.reason[1])
    /\ UNCHANGED <<options, mkdirFails, dirExists, disk, codepoints, names,
                   currentCodepoint, fileIndex, fontStream, glyphs, svgFont, css, tasks,
                   microtasks, all, trace>>

Next ==
    \/ EnsureDest
    \/ Construct
    \/ Seed
    \/ Assign
    \/ Glyph
    \/ fontStreamEnd
    \/ OnFinish
    \/ OnError
    \/ GenerateCss
    \/ ConvertTtf
    \/ MapOutputs
    \/ \E k \in 1..Len(tasks) : CompressDone(k)
    \/ Write
    \/ WriteFails
    \/ Rethrow
    \/ Log
    \/ Settle

Spec == Init /\ [][Next]_vars

(***************************************************************************)
(* Vocabulary of the properties.                                           *)
(***************************************************************************)
Overrides == OrElse(options.codepoints, <<>>)
StartCodepoint == OrElse(options.startCodepoint, DEFAULT_START_CODEPOINT)
NamesOf(obj) == [k \in 1..Len(obj) |-> obj[k].name]

\* The resolved names of the files, in file order.
FileNames == [k \in 1..Len(options.files) |-> ResolvedName(options.files[k])]

\* A sequence without its repetitions, first occurrences kept.
RECURSIVE Distinct(_)
Distinct(s) ==
    IF s = <<>> THEN <<>>
    ELSE LET front == Distinct(SubSeq(s, 1, Len(s) - 1))
             last == s[Len(s)]
         IN  IF last \in Range(front) THEN front ELSE Append(front, last)

\* The names the overrides leave without an entry, in file order.
AutoNames == SelectSeq(Distinct(FileNames), LAMBDA n : n \notin Keys(Overrides))

\* The least integer above cursor that is not in values.
LeastFree(cursor, values) ==
    CHOOSE v \in (cursor + 1)..(cursor + 1 + Cardinality(values)) :
        /\ v \notin values
        /\ \A w \in (cursor + 1)..(v - 1) : w \in values

\* The values the names of AutoNames are due, one probe per name: each is
\* the least free integer above the one before it.
RECURSIVE DueValues(_)
DueValues(n) ==
    IF n = 0 THEN <<>>
    ELSE LET before == DueValues(n - 1)
             cursor == IF n = 1 THEN StartCodepoint ELSE before[n - 1]
         IN  Append(before, LeastFree(cursor, Values(Overrides) \cup Range(before)))

NoSharedCodepoint(table) ==
    \A j, k \in 1..Len(table) : table[j].value = table[k].value => j = k

Assigned == pc \notin {"ensureDest", "construct", "seed", "assign"}

(***************************************************************************)
(* C1. Stated for every request: the table generateSvgFont returns maps no *)
(* two names to the same codepoint.                                        *)
(***************************************************************************)
C1_AnyOverrides == svgFont = "resolved" => NoSharedCodepoint(codepoints)

\* C1, as it holds: when the override values are pairwise distinct, no two
\* names of the table share a codepoint, at any point of the run and so in
\* the table returned.
C1_DistinctOverrides == NoSharedCodepoint(Overrides) => NoSharedCodepoint(codepoints)

C1_Witness ==
    /\ svgFont = "resolved"
    /\ Len(Overrides) = 2
    /\ NoSharedCodepoint(Overrides)
    /\ Len(AutoNames) = 2
    /\ StartCodepoint + 1 \in Values(Overrides)

(***************************************************************************)
(* C2. Every override entry is in the final table with the value the user  *)
(* gave, whatever the value and wherever the name occurs in the files.     *)
(***************************************************************************)
C2_OverridesKept ==
    Assigned =>
        \A k \in 1..Len(Overrides) :
            GetNumber(codepoints, Overrides[k].name) = Num(Overrides[k].value)

(***************************************************************************)
(* C3. Each name without a table entry, in file order, gets the least      *)
(* integer above the cursor that is not in the table: with no overrides    *)
(* the i-th distinct name gets start + i, the auto-assigned values         *)
(* increase strictly in file order, and none equals an override value.     *)
(***************************************************************************)
C3_LeastFreeInFileOrder ==
    Assigned =>
        LET value(n) == GetNumber(codepoints, n)
            due == DueValues(Len(AutoNames))
        IN  /\ \A k \in 1..Len(AutoNames) : value(AutoNames[k]) = Num(due[k])
            /\ Overrides = <<>> =>
                   \A k \in 1..Len(AutoNames) :
                       value(AutoNames[k]) = Num(StartCodepoint + k)
            /\ \A j, k \in 1..Len(AutoNames) :
                   j < k => value(AutoNames[j]).v < value(AutoNames[k]).v
            /\ \A k \in 1..Len(AutoNames) :
                   value(AutoNames[k]).v \notin Values(Overrides)

(***************************************************************************)
(* C4. Before any glyph reaches the assembler, the resolved name of every  *)
(* file is a key of the table exactly once; files with equal resolved      *)
(* names are written with the same codepoint, and the cursor advanced once *)
(* for them (read off where no file name is overridden: the cursor then    *)
(* stands at the value due to the last distinct name).                     *)
(***************************************************************************)
C4_NamesKeyedOnce ==
    glyphs # <<>> =>
        LET due == DueValues(Len(AutoNames))
        IN  /\ \A f \in 1..Len(FileNames) :
                   Cardinality({k \in 1..Len(codepoints) :
                                   codepoints[k].name = FileNames[f]}) = 1
            /\ \A g, h \in 1..Len(glyphs) :
                   glyphs[g].name = glyphs[h].name => glyphs[g].unicode = glyphs[h].unicode
            /\ Keys(Overrides) \cap Range(FileNames) = {} =>
                   currentCodepoint = due[Len(due)]

(***************************************************************************)
(* Reading a stylesheet back.                                              *)
(***************************************************************************)
HexValue(c) == (CHOOSE k \in 1..Len(HexDigits) : HexDigits[k] = c) - 1

RECURSIVE ParseHex(_)
ParseHex(digits) ==
    IF Len(digits) = 1 THEN HexValue(digits[1])
    ELSE 16 * ParseHex(SubSeq(digits, 1, Len(digits) - 1)) + HexValue(digits[Len(digits)])

\* `content: "\<hex>"` with the codepoint in lowercase hexadecimal, unpadded.
IsEscapeOf(content, value) ==
    /\ Len(content) >= 2
    /\ content[1] = "\\"
    /\ LET digits == Tail(content)
       IN  /\ \A k \in 1..Len(digits) : digits[k] \in Range(HexDigits)
           /\ Len(digits) > 1 => digits[1] # "0"
           /\ ParseHex(digits) = value

\* One rule per table entry and no other, each of the stated shape.
RulePerEntry ==
    LET icons == css[1].icons
    IN  /\ Len(icons) = Len(codepoints)
        /\ \A k \in 1..Len(icons) :
               /\ icons[k].selector = Selector(options)
               /\ icons[k].classPrefix = ClassPrefix(options)
               /\ icons[k].pseudo = "before"
               /\ \E j \in 1..Len(codepoints) :
                      /\ icons[k].name = codepoints[j].name
                      /\ IsEscapeOf(icons[k].content, codepoints[j].value)
        /\ \A j \in 1..Len(codepoints) :
               Cardinality({k \in 1..Len(icons) : icons[k].name = codepoints[j].name}) = 1

\* Override entries in the order given, then auto-assigned names in file order.
InsertionOrder == NamesOf(Overrides) \o AutoNames

\* Array-index names in ascending numeric order.
RECURSIVE Ascending(_)
Ascending(S) ==
    IF S = {} THEN <<>>
    ELSE LET least == CHOOSE n \in S : \A m \in S : IndexValue(n) <= IndexValue(m)
         IN  <<least>> \o Ascending(S \ {least})

\* Object.entries: the array-index names first, ascending, then the others
\* in insertion order.
EnumerationOrder ==
    Ascending({n \in Range(InsertionOrder) : IsArrayIndex(n)})
        \o SelectSeq(InsertionOrder, LAMBDA n : ~IsArrayIndex(n))

(***************************************************************************)
(* C7. Stated: one per-icon rule per table entry, codepoint in lowercase   *)
(* unpadded hexadecimal, the rules in insertion order: override entries in *)
(* the order given, then auto-assigned names in file order.                *)
(***************************************************************************)
C7_InsertionOrder ==
    css # None => RulePerEntry /\ NamesOf(css[1].icons) = InsertionOrder

\* C7, as it holds: one per-icon rule per table entry and no other, the
\* codepoint in lowercase unpadded hexadecimal, the rules in the order
\* Object.entries enumerates the table: names that are array indices first,
\* in ascending numeric order, then the other names in insertion order
\* (override entries in the order given, then auto-assigned names in file
\* order).
C7_EnumerationOrder ==
    css # None => RulePerEntry /\ NamesOf(css[1].icons) = EnumerationOrder

C7_Witness ==
    /\ css # None
    /\ \E n \in Keys(Overrides) : n \notin Range(FileNames)
    /\ \E k \in 1..Len(AutoNames) : k > 1 /\ IsArrayIndex(AutoNames[k])
    /\ \E k \in 1..Len(codepoints) : codepoints[k].value < 16
    /\ \E k \in 1..Len(codepoints) : codepoints[k].value > 4095
    /\ options.cssOptions # None

(***************************************************************************)
(* C5. The src list of the @font-face rule has one entry per distinct      *)
(* requested font type (woff2 and woff by default), in the fixed order     *)
(* woff2, woff, ttf, svg whatever the order or repetition in the types     *)
(* option; the format keyword is truetype for ttf and the type name        *)
(* otherwise; an empty types list gives an empty src list in a rule that   *)
(* is still emitted.                                                       *)
(***************************************************************************)
Rank(type) == CHOOSE k \in 1..Len(FontPreference) : FontPreference[k] = type

C5_SrcList ==
    css # None =>
        LET src == css[1].fontFace.src
            requested == Range(RequestedTypes(options)) \cap Range(FontPreference)
        IN  /\ css[1].fontFace.family = options.fontName
            /\ \A t \in requested :
                   Cardinality({k \in 1..Len(src) : src[k].url.ext = t}) = 1
            /\ \A k \in 1..Len(src) :
                   /\ src[k].url.ext \in requested
                   /\ src[k].url = [dir |-> ".", name |-> options.fontName,
                                    ext |-> src[k].url.ext]
                   /\ src[k].format =
                          IF src[k].url.ext = "ttf" THEN "truetype" ELSE src[k].url.ext
            /\ \A j, k \in 1..Len(src) :
                   j < k => Rank(src[j].url.ext) < Rank(src[k].url.ext)
            /\ (\E k \in 1..Len(src) : src[k].format = "truetype")
                   <=> "ttf" \in Range(RequestedTypes(options))
            /\ options.types = None =>
                   [k \in 1..Len(src) |-> src[k].url.ext] = <<"woff2", "woff">>
            /\ RequestedTypes(options) = <<>> => src = <<>>

C5_Witness ==
    /\ css # None
    /\ options.types = Some(<<"ttf", "woff2", "ttf">>)
    /\ Len(css[1].fontFace.src) = 2

(***************************************************************************)
(* C6. On a successful run the files written under dest are exactly        *)
(* <fontName>.css and <fontName>.<t> for each requested type t (woff2 and  *)
(* woff when types is unspecified); no file of another type is ever        *)
(* written, and generate resolves only after all these writes.             *)
(***************************************************************************)
Output(type) == pathResolve(options.dest, options.fontName, type)
Wrote(type) == \E k \in 1..Len(trace) : trace[k] = Event("write", type)

C6_FilesWritten ==
    /\ disk \subseteq {Output(t) : t \in {"css"} \cup Range(RequestedTypes(options))}
    /\ pc = "resolved" =>
           /\ disk = {Output(t) : t \in {"css"} \cup Range(RequestedTypes(options))}
           /\ \A t \in {"css"} \cup Range(RequestedTypes(options)) : Wrote(t)
           /\ options.types = None =>
                  disk = {Output("css"), Output("woff2"), Output("woff")}

C6_Witness ==
    /\ pc = "resolved"
    /\ Cardinality(Range(RequestedTypes(options))) = 3
    /\ Cardinality(disk) = 4

(***************************************************************************)
(* C8. When dest does not exist and cannot be created, generate rejects    *)
(* before the assembler is constructed or fed and before anything is       *)
(* written; when dest exists, no creation is attempted and the run goes on.*)
(***************************************************************************)
Did(ev, arg) == \E k \in 1..Len(trace) : trace[k] = Event(ev, arg)

C8_DestFirst ==
    /\ (~dirExists /\ mkdirFails) =>
           /\ fontStream = "none" /\ glyphs = <<>> /\ disk = {} /\ css = None
           /\ ~Happened("construct") /\ ~Happened("glyph")
           /\ pc \in {"ensureDest", "rejected"}
           /\ Did("existsSync", "false") =>
                  /\ pc = "rejected"
                  /\ error = Some([kind |-> "mkdir", arg |-> options.dest])
    /\ Did("existsSync", "true") =>
           /\ ~Happened("mkdir")
           /\ pc # "ensureDest"
           /\ pc = "construct" \/ Happened("construct")
           /\ error # None => error[1].kind # "mkdir"

C8_Witness ==
    /\ Did("existsSync", "false")
    /\ mkdirFails
    /\ pc = "rejected"
    /\ options.files # <<>>

(***************************************************************************)
(* C9. Stated: on the first error of the write stage (an entry that is not *)
(* css, svg, ttf, woff or woff2, or a failing write) generate rejects with *)
(* that error and no file is written after the error has been raised.      *)
(***************************************************************************)
WriteStageError(k) == trace[k].ev = "throw" /\ trace[k].arg \notin {"mkdirSync", "fromCodePoint"}
FirstReject == trace[CHOOSE k \in 1..Len(trace) :
                        /\ trace[k].ev = "reject"
                        /\ \A j \in 1..(k - 1) : trace[j].ev # "reject"]
Count(ev, arg) == Cardinality({k \in 1..Len(trace) : trace[k] = Event(ev, arg)})

RejectsWithFirstError ==
    /\ (\E k \in 1..Len(trace) : WriteStageError(k)) => pc # "resolved"
    /\ (pc = "rejected" /\ tasks # <<>>) =>
           /\ Happened("reject")
           /\ error = Some([kind |-> "task", arg |-> FirstReject.arg])

C9_NoWriteAfterError ==
    /\ RejectsWithFirstError
    /\ \A j, k \in 1..Len(trace) :
           (j < k /\ WriteStageError(j)) => trace[k].ev # "write"

\* C9, as it holds: generate rejects with the first error of the write stage
\* and never resolves once one was raised; the failing entry writes no file
\* (an unknown type never has a file); the writes of the other entries are
\* not cancelled and may happen after the error was raised.
C9_FirstErrorRejects ==
    /\ RejectsWithFirstError
    /\ \A t \in Range(OutputEntries) \ KnownOutputs : Output(t) \notin disk
    /\ \A t \in Range(OutputEntries) :
           Count("write", t) =
               Cardinality({k \in 1..Len(tasks) :
                               tasks[k].type = t /\ tasks[k].st \in {"wrote", "done"}})

C9_Witness ==
    /\ pc = "rejected"
    /\ \E j, k \in 1..Len(trace) :
           j < k /\ trace[j] = Event("throw", "eot") /\ trace[k] = Event("write", "woff2")
    /\ Happened("reject")

(***************************************************************************)
(* C10. Nothing is written, converted or rendered before the assembler     *)
(* signalled finish; when it signals an error instead, generate rejects    *)
(* with it and renders, converts and writes nothing.                       *)
(***************************************************************************)
AfterFont == {"css", "Svg2Ttf", "Ttf2Woff", "Ttf2Woff2", "write"}

C10_AfterFinish ==
    /\ \A k \in 1..Len(trace) :
           trace[k].ev \in AfterFont => \E j \in 1..(k - 1) : trace[j].ev = "finish"
    /\ (css # None \/ disk # {} \/ tasks # <<>>) => Happened("finish")
    /\ Happened("error") =>
           /\ pc = "rejected"
           /\ error = Some([kind |-> "assembler", arg |-> options.fontName])
           /\ css = None /\ disk = {} /\ tasks = <<>>
           /\ \A k \in 1..Len(trace) : trace[k].ev \notin AfterFont

C10_Witness ==
    /\ Happened("error")
    /\ fontStream = "finished"
    /\ Len(glyphs) = 2

====
